---- MODULE Spec2Model ----
(***************************************************************************)
(* Model of the Search Gateway of src/main.py: the FastAPI route handlers  *)
(* health_check, search_documents, autocomplete, get_indices,              *)
(* get_index_mapping, search_by_prompt_or_query and root, each run against *)
(* an Elasticsearch client whose calls either raise or return a response.  *)
(*                                                                         *)
(* One request is in flight at a time: a handler action takes the request  *)
(* parameters and the outcome of every backend call it issues as inputs    *)
(* and leaves the HTTP status, the response body and the log of the        *)
(* backend calls it made in the state; Respond hands the response to the   *)
(* client and frees the slot for the next request.                         *)
(*                                                                         *)
(* Texts (suggestion options, prompt and query values, names) are natural  *)
(* numbers standing for distinct strings.  Scores are natural numbers;     *)
(* for scores up to 28 the double-precision expression                     *)
(* int((score / max_score) * 100) of main.py:381 equals the exact          *)
(* floor(100 * score / max_score) whenever that is below 100, so the       *)
(* integer arithmetic below is the code's arithmetic on this domain.       *)
(***************************************************************************)
EXTENDS Integers, Sequences, FiniteSets, TLC

VARIABLES
    es,        \* the module-level client of main.py:35-40: "client" or None
    pc,        \* "idle": no request in flight; "done": a response is ready
    endpoint,  \* route of the request being handled
    params,    \* its query/path parameters
    calls,     \* backend calls issued by the handler, in order, with outcomes
    status,    \* HTTP status of the response
    body       \* response body

vars == <<es, pc, endpoint, params, calls, status, body>>

None == "None"

(***************************************************************************)
(* Bounds of the model                                                     *)
(***************************************************************************)
MaxHits == 2      \* hits in one backend search response
MaxTokens == 2    \* tokens of q: entries returned per term suggester
MaxSize == 2      \* largest `size` parameter of /autocomplete tried
MaxScore == 8     \* largest relevance score tried

(***************************************************************************)
(* Program constants                                                       *)
(***************************************************************************)
SuggestionLimit == 10   \* suggestions[:10]
TermSuggestSize == 5    \* "size": 5 of both term suggesters

(***************************************************************************)
(* Python helpers                                                          *)
(***************************************************************************)
Min(a, b) == IF a < b THEN a ELSE b

\* s[:n]
Slice(s, n) == SubSeq(s, 1, Min(n, Len(s)))

\* x in s, for a list s
In(x, s) == \E i \in 1..Len(s) : s[i] = x

\* d with key k set to v (a dict literal or d[k] = v)
SetKey(d, k, v) == [x \in DOMAIN d \cup {k} |-> IF x = k THEN v ELSE d[x]]

SeqsUpTo(S, n) == UNION {[1..k -> S] : k \in 0..n}

(***************************************************************************)
(* Outcomes of a backend call and the call log                             *)
(***************************************************************************)
Raised == [ok |-> FALSE]
Returned(r) == [ok |-> TRUE, response |-> r]
\* one backend call: the client method, the request body it was given, its outcome
Call(api, request, o) == [api |-> api, request |-> request, outcome |-> o]

HTTPException(code, detail, issued) ==
    [status |-> code, body |-> [detail |-> detail], calls |-> issued]
Ok(b, issued) == [status |-> 200, body |-> b, calls |-> issued]

(***************************************************************************)
(* GET /  (root)                                                           *)
(***************************************************************************)
root_result ==
    Ok([message |-> "Elasticsearch Auto-Suggestions API", version |-> "1.0.0"],
       <<>>)

(***************************************************************************)
(* GET /health  (health_check)                                             *)
(***************************************************************************)
Unhealthy == [status |-> "unhealthy", elasticsearch_connected |-> FALSE,
              cluster_name |-> None, cluster_health |-> None]

\* dict.get(key): None when the key is absent
Get(d, k) == IF k \in DOMAIN d THEN d[k] ELSE None

\* health_check with the cluster name kept when the second call fails
health_check_partial(info, health) ==
    IF es = None THEN Ok(Unhealthy, <<>>)
    ELSE IF ~info.ok THEN Ok(Unhealthy, <<Call("info", None, info)>>)
    ELSE IF ~health.ok
         THEN Ok([Unhealthy EXCEPT
                      !.cluster_name = Get(info.response, "cluster_name")],
                 <<Call("info", None, info), Call("cluster.health", None, health)>>)
    ELSE Ok([status |-> "healthy", elasticsearch_connected |-> TRUE,
             cluster_name |-> Get(info.response, "cluster_name"),
             cluster_health |-> Get(health.response, "status")],
            <<Call("info", None, info), Call("cluster.health", None, health)>>)

health_check(info, health) ==
    IF es = None THEN Ok(Unhealthy, <<>>)
    ELSE IF ~info.ok THEN Ok(Unhealthy, <<Call("info", None, info)>>)
    ELSE IF ~health.ok
         THEN Ok(Unhealthy, <<Call("info", None, info), Call("cluster.health", None, health)>>)
    ELSE Ok([status |-> "healthy", elasticsearch_connected |-> TRUE,
             cluster_name |-> Get(info.response, "cluster_name"),
             cluster_health |-> Get(health.response, "status")],
            <<Call("info", None, info), Call("cluster.health", None, health)>>)

InfoOutcomes ==
    {Raised, Returned([cluster_name |-> "docker-cluster"]),
     Returned([tagline |-> "You Know, for Search"])}
ClusterHealthOutcomes ==
    {Raised, Returned([status |-> "green"]), Returned([status |-> "red"])}

NotIssued == [ok |-> FALSE, skipped |-> TRUE]

(***************************************************************************)
(* GET /search  (search_documents)                                         *)
(***************************************************************************)
\* AppendIfNew without the membership test
AppendAlways(suggestions, text) == Append(suggestions, text)

\* lines 180-181: if option["text"] not in suggestions: suggestions.append(...)
AppendIfNew(suggestions, text) ==
    IF In(text, suggestions) THEN suggestions ELSE Append(suggestions, text)

\* lines 179-181: for option in suggestion.get("options", [])
RECURSIVE CollectOptions(_, _)
CollectOptions(suggestions, options) ==
    IF options = <<>> THEN suggestions
    ELSE CollectOptions(AppendIfNew(suggestions, Head(options).text),
                        Tail(options))

\* lines 178-181: for suggestion in response["suggest"][suggest_type]
RECURSIVE CollectEntries(_, _)
CollectEntries(suggestions, entries) ==
    IF entries = <<>> THEN suggestions
    ELSE CollectEntries(
             CollectOptions(suggestions,
                            IF "options" \in DOMAIN Head(entries)
                            THEN Head(entries).options ELSE <<>>),
             Tail(entries))

\* lines 176-181: for suggest_type in ["prompt_suggest", "query_suggest"]
RECURSIVE CollectTypes(_, _, _)
CollectTypes(suggestions, types, suggest_section) ==
    IF types = <<>> THEN suggestions
    ELSE CollectTypes(
             IF Head(types) \in DOMAIN suggest_section
             THEN CollectEntries(suggestions, suggest_section[Head(types)])
             ELSE suggestions,
             Tail(types), suggest_section)

\* SearchSuggestions without the test of the suggest parameter
SearchSuggestionsIgnoringFlag(suggest, response) ==
    IF "suggest" \in DOMAIN response
    THEN CollectTypes(<<>>, <<"prompt_suggest", "query_suggest">>,
                      response.suggest)
    ELSE <<>>

\* lines 174-181
SearchSuggestions(suggest, response) ==
    IF suggest /\ "suggest" \in DOMAIN response
    THEN CollectTypes(<<>>, <<"prompt_suggest", "query_suggest">>,
                      response.suggest)
    ELSE <<>>

\* lines 161-169: the dict built for one backend hit
SearchDoc(hit) ==
    LET doc == [id |-> hit._id, score |-> hit._score, source |-> hit._source]
    IN  IF "highlight" \in DOMAIN hit
        THEN SetKey(doc, "highlight", hit.highlight)
        ELSE doc

\* lines 43-48: pydantic validation of one element of SearchResponse.hits;
\* prompt and query are required fields, unknown keys are ignored
SearchResultValid(doc) == {"prompt", "query"} \subseteq DOMAIN doc

\* lines 183-188: SearchResponse(...) raises ValidationError on an invalid hit
SearchResponseValid(hits) == \A i \in 1..Len(hits) : SearchResultValid(hits[i])

\* search_documents with the client test moved inside the try block, where
\* `except Exception` catches the HTTPException(503)
search_documents_guard_in_try(suggest, o) ==
    IF es = None
    THEN HTTPException(500, "Search failed", <<>>)
    ELSE IF ~o.ok
    THEN HTTPException(500, "Search failed", <<Call("search", "search_body", o)>>)
    ELSE LET response == o.response
             hits == [i \in 1..Len(response.hits.hits) |->
                          SearchDoc(response.hits.hits[i])]
             suggestions == SearchSuggestions(suggest, response)
         IN  IF SearchResponseValid(hits)
             THEN Ok([total |-> response.hits.total.value,
                      hits |-> hits,
                      took |-> response.took,
                      suggestions |-> Slice(suggestions, SuggestionLimit)],
                     <<Call("search", "search_body", o)>>)
             ELSE HTTPException(500, "Search failed",
                                <<Call("search", "search_body", o)>>)

search_documents(suggest, o) ==
    IF es = None
    THEN HTTPException(503, "Elasticsearch connection not available", <<>>)
    ELSE IF ~o.ok
    THEN HTTPException(500, "Search failed", <<Call("search", "search_body", o)>>)
    ELSE LET response == o.response
             hits == [i \in 1..Len(response.hits.hits) |->
                          SearchDoc(response.hits.hits[i])]
             suggestions == SearchSuggestions(suggest, response)
         IN  IF SearchResponseValid(hits)
             THEN Ok([total |-> response.hits.total.value,
                      hits |-> hits,
                      took |-> response.took,
                      suggestions |-> Slice(suggestions, SuggestionLimit)],
                     <<Call("search", "search_body", o)>>)
             ELSE HTTPException(500, "Search failed", <<Call("search", "search_body", o)>>)

\* ---- backend responses to the /search request
Texts(a, n) == [i \in 1..n |-> [text |-> a + i - 1]]
OptionLists == {<<>>} \cup {Texts(a, TermSuggestSize) : a \in {1, 4, 9}}
SuggestEntries == {[text |-> 0, options |-> l] : l \in OptionLists}
EntryLists == UNION {[1..n -> SuggestEntries] : n \in 1..MaxTokens}
SuggestSections ==
    UNION {{[prompt_suggest |-> p, query_suggest |-> q] :
                p \in [1..n -> SuggestEntries], q \in [1..n -> SuggestEntries]} :
           n \in 1..MaxTokens}
    \cup {[prompt_suggest |-> p] : p \in EntryLists}
    \cup {[query_suggest |-> q] : q \in EntryLists}

SearchHits ==
    {[_id |-> 1, _score |-> 2, _source |-> [prompt |-> 1, query |-> 2],
      highlight |-> [prompt |-> <<1>>]],
     [_id |-> 2, _score |-> 1, _source |-> [prompt |-> 3, query |-> 2]]}
Tooks == {3, 7}

SearchBase ==
    {[hits |-> [total |-> [value |-> Len(h) + more], hits |-> h], took |-> t] :
         h \in SeqsUpTo(SearchHits, MaxHits), more \in {0, 1}, t \in Tooks}

\* with suggest requested the backend answers any suggest section, or none;
\* without, it answers none, or (were it to) one: the handler ignores it
SearchOutcomes(suggest) ==
    {Raised}
    \cup {Returned(r) : r \in SearchBase}
    \cup {Returned(SetKey(r, "suggest", s)) :
              r \in SearchBase,
              s \in IF suggest THEN SuggestSections
                    ELSE {[prompt_suggest |-> <<[text |-> 0,
                                                 options |-> Texts(1, 2)]>>]}}

(***************************************************************************)
(* GET /autocomplete  (autocomplete)                                       *)
(***************************************************************************)
\* lines 255-256: for option in suggestion.get("options", []): append
RECURSIVE AppendOptions(_, _)
AppendOptions(suggestions, options) ==
    IF options = <<>> THEN suggestions
    ELSE AppendOptions(Append(suggestions, Head(options).text), Tail(options))

\* lines 254-256: for suggestion in response["suggest"]["autocomplete"]
RECURSIVE AppendEntries(_, _)
AppendEntries(suggestions, entries) ==
    IF entries = <<>> THEN suggestions
    ELSE AppendEntries(
             AppendOptions(suggestions,
                           IF "options" \in DOMAIN Head(entries)
                           THEN Head(entries).options ELSE <<>>),
             Tail(entries))

\* lines 251-256
CompletionSuggestions(response) ==
    IF "suggest" \in DOMAIN response /\ "autocomplete" \in DOMAIN response.suggest
    THEN AppendEntries(<<>>, response.suggest.autocomplete)
    ELSE <<>>

\* FallbackAdd without the membership tests
FallbackAddNoDedup(suggestions, source) ==
    LET withPrompt ==
            IF "prompt" \in DOMAIN source
            THEN Append(suggestions, source.prompt) ELSE suggestions
    IN  IF "query" \in DOMAIN source
        THEN Append(withPrompt, source.query) ELSE withPrompt

\* lines 264-268 and 278-282: one hit of the prefix query
FallbackAdd(suggestions, source) ==
    LET withPrompt ==
            IF "prompt" \in DOMAIN source /\ ~In(source.prompt, suggestions)
            THEN Append(suggestions, source.prompt) ELSE suggestions
    IN  IF "query" \in DOMAIN source /\ ~In(source.query, withPrompt)
        THEN Append(withPrompt, source.query) ELSE withPrompt

\* lines 261-268 and 275-282: for hit in response["hits"]["hits"]
RECURSIVE FallbackCollect(_, _)
FallbackCollect(suggestions, hits) ==
    IF hits = <<>> THEN suggestions
    ELSE FallbackCollect(FallbackAdd(suggestions, Head(hits)._source), Tail(hits))

FallbackSuggestions(response) == FallbackCollect(<<>>, response.hits.hits)

\* lines 270 and 284
AutocompleteBody(suggestions, size) == [suggestions |-> Slice(suggestions, size)]

\* t1: outcome of the completion-suggester search (line 250); f1: of the
\* prefix search issued next, at line 260 when t1 returned no option and at
\* line 274 when t1 raised; f2: of the prefix search of line 274 when the one
\* of line 260 raised inside the inner try
autocomplete(size, t1, f1, f2) ==
    LET c1 == Call("search", "search_body", t1)
        cf1 == Call("search", "fallback_body", f1)
        cf2 == Call("search", "fallback_body", f2)
    IN  IF es = None
        THEN HTTPException(503, "Elasticsearch connection not available", <<>>)
        ELSE IF t1.ok
        THEN LET suggestions == CompletionSuggestions(t1.response)
             IN  IF suggestions # <<>>
                 THEN Ok(AutocompleteBody(suggestions, size), <<c1>>)
                 ELSE IF f1.ok
                 THEN Ok(AutocompleteBody(FallbackSuggestions(f1.response), size),
                         <<c1, cf1>>)
                 ELSE IF f2.ok
                 THEN Ok(AutocompleteBody(FallbackSuggestions(f2.response), size),
                         <<c1, cf1, cf2>>)
                 ELSE HTTPException(500, "Autocomplete failed", <<c1, cf1, cf2>>)
        ELSE IF f1.ok
        THEN Ok(AutocompleteBody(FallbackSuggestions(f1.response), size),
                <<c1, cf1>>)
        ELSE HTTPException(500, "Autocomplete failed", <<c1, cf1>>)

\* ---- backend responses to the two /autocomplete requests; the backend
\* returns at most `size` options, and at most `size` documents
CompletionOutcomes(size) ==
    {Raised, Returned([took |-> 3])}
    \cup {Returned([took |-> 3,
                    suggest |-> [autocomplete |-> <<[text |-> 0, options |-> l]>>]]) :
              l \in SeqsUpTo({[text |-> 1], [text |-> 2]}, size)}

FallbackSources ==
    {[prompt |-> 1, query |-> 2], [prompt |-> 1, query |-> 1],
     [prompt |-> 3, query |-> 2], [prompt |-> 3], [query |-> 2]}

FallbackOutcomes(size) ==
    {Raised}
    \cup {Returned([took |-> 3, hits |-> [total |-> [value |-> Len(h)], hits |-> h]]) :
              h \in SeqsUpTo({[_source |-> src] : src \in FallbackSources}, size)}

(***************************************************************************)
(* GET /indices  (get_indices) and GET /mapping/{index_name}               *)
(* (get_index_mapping)                                                     *)
(***************************************************************************)
get_indices(o) ==
    IF es = None
    THEN HTTPException(503, "Elasticsearch connection not available", <<>>)
    ELSE IF ~o.ok
    THEN HTTPException(500, "Failed to get indices",
                       <<Call("indices.get_alias", "*", o)>>)
    ELSE Ok([indices |-> DOMAIN o.response],
            <<Call("indices.get_alias", "*", o)>>)

GetAliasOutcomes ==
    {Raised, Returned(<<>>), Returned([clothing_prompts |-> <<>>]),
     Returned([clothing_prompts |-> <<>>, logs |-> <<>>])}

get_index_mapping(index_name, o) ==
    IF es = None
    THEN HTTPException(503, "Elasticsearch connection not available", <<>>)
    ELSE IF ~o.ok
    THEN HTTPException(500, "Failed to get mapping",
                       <<Call("indices.get_mapping", index_name, o)>>)
    ELSE Ok([mapping |-> o.response],
            <<Call("indices.get_mapping", index_name, o)>>)

IndexNames == {"clothing_prompts", "missing"}

\* the backend rejects the request for an index it does not have
GetMappingOutcomes(index_name) ==
    {Raised}
    \cup IF index_name = "clothing_prompts"
         THEN {Returned([clothing_prompts |-> [mappings |-> <<>>]])}
         ELSE {}

(***************************************************************************)
(* GET /search_by_prompt_or_query  (search_by_prompt_or_query)             *)
(***************************************************************************)
\* line 347
max_score_of(max_score_response) ==
    IF max_score_response.hits.hits # <<>>
    THEN max_score_response.hits.hits[1]._score
    ELSE 1

\* n / d rounded to the nearest integer, ties to even (Python's round)
RoundDiv(n, d) ==
    LET q == n \div d
        r == n % d
    IN  IF 2 * r > d \/ (2 * r = d /\ q % 2 = 1) THEN q + 1 ELSE q

\* MatchPercentage without the cap at 100
MatchPercentageUncapped(score, max_score) ==
    IF max_score > 0 THEN (score * 100) \div max_score ELSE 0

\* MatchPercentage with round() in place of int()
MatchPercentageRounded(score, max_score) ==
    IF max_score > 0 THEN Min(100, RoundDiv(score * 100, max_score)) ELSE 0

\* line 381: min(100, int((score / max_score) * 100)) if max_score > 0 else 0
MatchPercentage(score, max_score) ==
    IF max_score > 0 THEN Min(100, (score * 100) \div max_score) ELSE 0

\* lines 376-389: the dict built for one backend hit; '' is text 0
PromptDoc(hit, max_score) ==
    LET source == IF "_source" \in DOMAIN hit THEN hit._source ELSE <<>>
        highlight == IF "highlight" \in DOMAIN hit THEN hit.highlight ELSE <<>>
        score == IF "_score" \in DOMAIN hit THEN hit._score ELSE 0
    IN  [prompt |-> IF "prompt" \in DOMAIN source THEN source.prompt ELSE 0,
         query |-> IF "query" \in DOMAIN source THEN source.query ELSE 0,
         score |-> score,
         match_percentage |-> MatchPercentage(score, max_score),
         highlight |-> highlight]

\* ping: what es.ping() returned; m: outcome of the max-score search
\* (line 346); o: outcome of the main search (line 371)
search_by_prompt_or_query(ping, m, o) ==
    LET cp == Call("ping", None, Returned(ping))
        cm == Call("search", "max_score_body", m)
        co == Call("search", "search_body", o)
    IN  IF es = None
        THEN HTTPException(503, "Elasticsearch is not available", <<>>)
        ELSE IF ~ping
        THEN HTTPException(503, "Elasticsearch is not available", <<cp>>)
        ELSE IF ~m.ok
        THEN HTTPException(500, "Search error", <<cp, cm>>)
        ELSE IF ~o.ok
        THEN HTTPException(500, "Search error", <<cp, cm, co>>)
        ELSE LET max_score == max_score_of(m.response)
                 response == o.response
             IN  Ok([total |-> response.hits.total.value,
                     hits |-> [i \in 1..Len(response.hits.hits) |->
                                   PromptDoc(response.hits.hits[i], max_score)],
                     took |-> response.took,
                     suggestions |-> <<>>],
                    <<cp, cm, co>>)

\* ---- backend responses to the two searches
ScoredHit(s) ==
    [_score |-> s, _source |-> [prompt |-> 1, query |-> 2],
     highlight |-> [prompt |-> <<1>>]]

MaxScoreOutcomes ==
    {Raised, Returned([took |-> 3, hits |-> [total |-> [value |-> 0], hits |-> <<>>]])}
    \cup {Returned([took |-> 3,
                    hits |-> [total |-> [value |-> 1], hits |-> <<ScoredHit(s)>>]]) :
              s \in 0..MaxScore}

\* the engine answers in descending order of score
Descending(scores) ==
    \A i \in 1..Len(scores) - 1 : scores[i] >= scores[i + 1]

PromptOutcomes ==
    {Raised}
    \cup {Returned([took |-> t,
                    hits |-> [total |-> [value |-> Len(sc) + more],
                              hits |-> [i \in 1..Len(sc) |-> ScoredHit(sc[i])]]]) :
              sc \in {x \in SeqsUpTo(0..MaxScore, MaxHits) : Descending(x)},
              more \in {0, 1}, t \in Tooks}

(***************************************************************************)
(* The state machine                                                       *)
(***************************************************************************)
Init ==
    /\ es \in {"client", None}
    /\ pc = "idle"
    /\ endpoint = None
    /\ params = <<>>
    /\ calls = <<>>
    /\ status = 0
    /\ body = <<>>

\* a handler runs on the free slot and leaves its response there
Handle(route, p, result) ==
    /\ pc' = "done"
    /\ endpoint' = route
    /\ params' = p
    /\ calls' = result.calls
    /\ status' = result.status
    /\ body' = result.body
    /\ UNCHANGED es

Root ==
    /\ pc = "idle"
    /\ Handle("/", <<>>, root_result)

HealthCheck ==
    /\ pc = "idle"
    /\ \E info \in InfoOutcomes :
           \E health \in IF es # None /\ info.ok THEN ClusterHealthOutcomes
                         ELSE {NotIssued} :
               Handle("/health", <<>>, health_check(info, health))

SearchDocuments ==
    /\ pc = "idle"
    /\ \E suggest \in BOOLEAN :
           \E o \in IF es = None THEN {NotIssued} ELSE SearchOutcomes(suggest) :
               Handle("/search", [suggest |-> suggest],
                      search_documents(suggest, o))

Autocomplete ==
    /\ pc = "idle"
    /\ \E size \in 1..MaxSize :
           \E t1 \in IF es = None THEN {NotIssued} ELSE CompletionOutcomes(size) :
               \E f1 \in IF es # None
                            /\ (~t1.ok \/ CompletionSuggestions(t1.response) = <<>>)
                         THEN FallbackOutcomes(size) ELSE {NotIssued} :
                   \E f2 \in IF es # None /\ t1.ok /\ f1 = Raised
                             THEN FallbackOutcomes(size) ELSE {NotIssued} :
                       Handle("/autocomplete", [size |-> size],
                              autocomplete(size, t1, f1, f2))

GetIndices ==
    /\ pc = "idle"
    /\ \E o \in IF es = None THEN {NotIssued} ELSE GetAliasOutcomes :
           Handle("/indices", <<>>, get_indices(o))

GetIndexMapping ==
    /\ pc = "idle"
    /\ \E index_name \in IndexNames :
           \E o \in IF es = None THEN {NotIssued}
                    ELSE GetMappingOutcomes(index_name) :
               Handle("/mapping/{index_name}", [index_name |-> index_name],
                      get_index_mapping(index_name, o))

SearchByPromptOrQuery ==
    /\ pc = "idle"
    /\ \E ping \in IF es = None THEN {FALSE} ELSE BOOLEAN :
           \E m \in IF es # None /\ ping THEN MaxScoreOutcomes ELSE {NotIssued} :
               \E o \in IF m.ok THEN PromptOutcomes ELSE {NotIssued} :
                   Handle("/search_by_prompt_or_query", <<>>,
                          search_by_prompt_or_query(ping, m, o))

\* the response is sent; the next request can be taken
Respond ==
    /\ pc = "done"
    /\ pc' = "idle"
    /\ endpoint' = None
    /\ params' = <<>>
    /\ calls' = <<>>
    /\ status' = 0
    /\ body' = <<>>
    /\ UNCHANGED es

Next ==
    \/ Root
    \/ HealthCheck
    \/ SearchDocuments
    \/ Autocomplete
    \/ GetIndices
    \/ GetIndexMapping
    \/ SearchByPromptOrQuery
    \/ Respond

Spec == Init /\ [][Next]_vars

(***************************************************************************)
(* Properties                                                              *)
(***************************************************************************)
Done(route) == pc = "done" /\ endpoint = route

NoDuplicates(s) == \A i, j \in 1..Len(s) : s[i] = s[j] => i = j

Range(s) == {s[i] : i \in 1..Len(s)}

Failed(c) == ~c.outcome.ok

\* the option texts of a list of suggester entries, in the backend's order
RECURSIVE EntryTexts(_)
EntryTexts(entries) ==
    IF entries = <<>> THEN <<>>
    ELSE (IF "options" \in DOMAIN Head(entries)
          THEN [i \in 1..Len(Head(entries).options) |->
                    Head(entries).options[i].text]
          ELSE <<>>) \o EntryTexts(Tail(entries))

\* the options of prompt_suggest followed by those of query_suggest
BackendOptionTexts(response) ==
    IF "suggest" \notin DOMAIN response THEN <<>>
    ELSE (IF "prompt_suggest" \in DOMAIN response.suggest
          THEN EntryTexts(response.suggest.prompt_suggest) ELSE <<>>)
         \o (IF "query_suggest" \in DOMAIN response.suggest
             THEN EntryTexts(response.suggest.query_suggest) ELSE <<>>)

\* index of the first occurrence of x in s
FirstIndex(s, x) == CHOOSE i \in 1..Len(s) : s[i] = x /\ \A j \in 1..(i - 1) : s[j] # x

\* r is the first `limit` distinct elements of s, in order of first occurrence
FirstSeenPrefix(r, s, limit) ==
    /\ Len(r) = Min(limit, Cardinality(Range(s)))
    /\ Range(r) \subseteq Range(s)
    /\ \A i, j \in 1..Len(r) : i < j => FirstIndex(s, r[i]) < FirstIndex(s, r[j])
    /\ \A i \in 1..Len(r) : \A x \in Range(s) :
           FirstIndex(s, x) < FirstIndex(s, r[i]) => x \in Range(r)

\* C1: on /search with a client, a backend search that returns k hits ends
\* in a 200 whose hits are the k backend hits in the backend's order, and a
\* 500 is returned only when the backend call itself failed.
C1_SearchReturnsEveryHit ==
    (Done("/search") /\ es # None) =>
        /\ ~Failed(calls[1]) =>
               /\ status = 200
               /\ Len(body.hits) = Len(calls[1].outcome.response.hits.hits)
               /\ \A i \in 1..Len(body.hits) :
                      body.hits[i].id = calls[1].outcome.response.hits.hits[i]._id
        /\ status = 500 => Failed(calls[1])

\* C2: /health always answers 200; without a client, or when info or
\* cluster.health fails, it answers unhealthy, elasticsearch_connected false,
\* cluster_name and cluster_health absent; it answers connected only when
\* both calls succeeded.
C2_HealthNeverErrors ==
    Done("/health") =>
        /\ status = 200
        /\ (es = None \/ \E i \in 1..Len(calls) : Failed(calls[i])) =>
               /\ body.status = "unhealthy"
               /\ body.elasticsearch_connected = FALSE
               /\ body.cluster_name = None
               /\ body.cluster_health = None
        /\ body.elasticsearch_connected =>
               /\ Len(calls) = 2
               /\ calls[1].api = "info" /\ ~Failed(calls[1])
               /\ calls[2].api = "cluster.health" /\ ~Failed(calls[2])

\* info succeeded with a cluster name, then cluster.health failed
C2_Witness ==
    /\ Done("/health") /\ es # None
    /\ Len(calls) = 2
    /\ ~Failed(calls[1])
    /\ "cluster_name" \in DOMAIN calls[1].outcome.response
    /\ Failed(calls[2])
    /\ body.status = "unhealthy"

SearchFamily ==
    {"/search", "/autocomplete", "/indices", "/mapping/{index_name}",
     "/search_by_prompt_or_query"}

\* C3: without a client every search-family endpoint answers 503 and issues
\* no backend call (the 503 is not turned into a 500), while / and /health
\* answer 200.
C3_NoClientGives503 ==
    (pc = "done" /\ es = None) =>
        /\ endpoint \in SearchFamily => status = 503 /\ calls = <<>>
        /\ endpoint \in {"/", "/health"} => status = 200

C3_Witness ==
    /\ Done("/search") /\ es = None
    /\ status = 503
    /\ calls = <<>>

\* C4: the suggestions of a successful /search response have no duplicates,
\* at most 10 entries, and are the first distinct options, in first-seen
\* order, of prompt_suggest followed by query_suggest; with suggest=false
\* they are empty.
C4_SearchSuggestions ==
    (Done("/search") /\ status = 200) =>
        /\ NoDuplicates(body.suggestions)
        /\ Len(body.suggestions) <= 10
        /\ params.suggest =>
               FirstSeenPrefix(body.suggestions,
                               BackendOptionTexts(calls[1].outcome.response), 10)
        /\ ~params.suggest => body.suggestions = <<>>

\* more than 10 distinct options, some repeated, cut to 10
C4_Witness ==
    /\ Done("/search") /\ status = 200 /\ params.suggest
    /\ Len(body.suggestions) = 10
    /\ LET texts == BackendOptionTexts(calls[1].outcome.response)
       IN  /\ Cardinality(Range(texts)) > 10
           /\ ~NoDuplicates(texts)

\* the hits the separate top-score call answered
TopScoreHits == calls[2].outcome.response.hits.hits

\* C5: when both searches of /search_by_prompt_or_query succeed the request
\* succeeds, and every hit's match_percentage is an integer in 0..100,
\* whatever the top-score call answered; when it answered a top score of 0
\* every match_percentage is 0.
C5_MatchPercentageRange ==
    (Done("/search_by_prompt_or_query") /\ Len(calls) = 3 /\ ~Failed(calls[3])) =>
        /\ status = 200
        /\ Len(body.hits) = Len(calls[3].outcome.response.hits.hits)
        /\ \A i \in 1..Len(body.hits) :
               /\ body.hits[i].match_percentage \in 0..100
               /\ (TopScoreHits # <<>> /\ TopScoreHits[1]._score = 0) =>
                      body.hits[i].match_percentage = 0

\* a top score of 0 with a hit of positive score
C5_Witness ==
    /\ Done("/search_by_prompt_or_query") /\ status = 200
    /\ TopScoreHits # <<>> /\ TopScoreHits[1]._score = 0
    /\ \E i \in 1..Len(body.hits) : body.hits[i].score > 0

\* C6 as stated: each match_percentage is round(min(100, 100 * hitScore /
\* topScore)) with topScore the top score of the result set; read in the
\* claim's favour, for the requests whose top-score call answered that very
\* top score.
C6_RoundedPercentage ==
    (/\ Done("/search_by_prompt_or_query") /\ status = 200
     /\ body.hits # <<>> /\ TopScoreHits # <<>>
     /\ TopScoreHits[1]._score = body.hits[1].score) =>
        \A i \in 1..Len(body.hits) :
            LET topScore == body.hits[1].score
            IN  body.hits[i].match_percentage =
                    IF topScore = 0 THEN 0
                    ELSE RoundDiv(Min(100 * topScore, 100 * body.hits[i].score),
                                  topScore)

\* C6 amended: each match_percentage is min(100, 100 * hitScore / topScore
\* truncated toward zero), with topScore the score of the first hit of the
\* separate top-score call, 1 when that call has no hit, and the percentage
\* 0 when topScore is 0.
C6_TruncatedAgainstTopScoreCall ==
    (Done("/search_by_prompt_or_query") /\ status = 200) =>
        \A i \in 1..Len(body.hits) :
            LET topScore == IF TopScoreHits = <<>> THEN 1 ELSE TopScoreHits[1]._score
                hitScore == body.hits[i].score
                p == body.hits[i].match_percentage
            IN  IF topScore = 0 THEN p = 0
                ELSE \/ p = 100 /\ hitScore >= topScore
                     \/ /\ p \in 0..99
                        /\ p * topScore <= 100 * hitScore
                        /\ 100 * hitScore < (p + 1) * topScore

\* hits scored 3 and 2 against a top score of 3: 100 and 66, not 67
C6_Witness ==
    /\ Done("/search_by_prompt_or_query") /\ status = 200
    /\ TopScoreHits # <<>> /\ TopScoreHits[1]._score = 3
    /\ Len(body.hits) = 2
    /\ body.hits[1].score = 3 /\ body.hits[1].match_percentage = 100
    /\ body.hits[2].score = 2 /\ body.hits[2].match_percentage = 66

FallbackIssued == \E i \in 1..Len(calls) : calls[i].request = "fallback_body"

\* the completion-suggester response carries no option
NoOptions(response) ==
    \/ "suggest" \notin DOMAIN response
    \/ "autocomplete" \notin DOMAIN response.suggest
    \/ \A i \in 1..Len(response.suggest.autocomplete) :
           \/ "options" \notin DOMAIN response.suggest.autocomplete[i]
           \/ response.suggest.autocomplete[i].options = <<>>

\* C7: in /autocomplete the completion-suggester request comes first; the
\* prefix request is issued exactly when that one raised or had no option;
\* a completion-suggester failure alone never fails the request; a result
\* produced by the fallback has no duplicates and at most `size` entries.
C7_AutocompleteFallback ==
    (Done("/autocomplete") /\ es # None) =>
        /\ calls[1].request = "search_body"
        /\ \A i \in 2..Len(calls) : calls[i].request = "fallback_body"
        /\ FallbackIssued <=>
               (Failed(calls[1]) \/ NoOptions(calls[1].outcome.response))
        /\ (Failed(calls[1]) /\ ~Failed(calls[Len(calls)])) => status = 200
        /\ status = 500 => Len(calls) > 1 /\ Failed(calls[Len(calls)])
        /\ (status = 200 /\ FallbackIssued) =>
               /\ NoDuplicates(body.suggestions)
               /\ Len(body.suggestions) <= params.size

\* the completion suggester raised and the prefix query answered three
\* distinct strings, one of them twice, for a size of 2
C7_Witness ==
    /\ Done("/autocomplete") /\ es # None /\ status = 200
    /\ Failed(calls[1])
    /\ Len(calls) = 2
    /\ calls[2].outcome.response.hits.hits =
           <<[_source |-> [prompt |-> 1, query |-> 2]],
             [_source |-> [prompt |-> 3, query |-> 2]]>>
    /\ Len(body.suggestions) = params.size

\* C8: every successful /autocomplete response, from either tier, has no
\* duplicate strings and at most `size` entries.
C8_AutocompleteNoDuplicates ==
    (Done("/autocomplete") /\ status = 200) =>
        /\ NoDuplicates(body.suggestions)
        /\ Len(body.suggestions) <= params.size

\* C9: within one request of a search-family endpoint no backend request is
\* issued again after it failed; a failed call other than the autocomplete
\* completion-suggester call is the last call and the request ends with 500;
\* the prefix-fallback request is issued at most once.
C9_NoRetry ==
    (pc = "done" /\ endpoint \in SearchFamily) =>
        /\ \A i, j \in 1..Len(calls) :
               (i < j /\ Failed(calls[i])) =>
                   ~(calls[j].api = calls[i].api /\ calls[j].request = calls[i].request)
        /\ \A i \in 1..Len(calls) :
               (Failed(calls[i]) /\ ~(endpoint = "/autocomplete" /\ i = 1)) =>
                   i = Len(calls) /\ status = 500
        /\ Cardinality({i \in 1..Len(calls) : calls[i].request = "fallback_body"}) <= 1

\* the response of the search whose hits are returned
MainCall == IF endpoint = "/search" THEN calls[1] ELSE calls[3]

EmptyResultSet ==
    /\ pc = "done" /\ endpoint \in {"/search", "/search_by_prompt_or_query"}
    /\ Len(calls) = (IF endpoint = "/search" THEN 1 ELSE 3)
    /\ ~Failed(MainCall)
    /\ MainCall.outcome.response.hits.total.value = 0
    /\ MainCall.outcome.response.hits.hits = <<>>

\* C10 as stated: an empty backend result set gives a 200 with total 0, no
\* hits, the backend's took and no suggestions, on both endpoints.
C10_EmptyResultNoSuggestions ==
    EmptyResultSet =>
        /\ status = 200
        /\ body.total = 0
        /\ body.hits = <<>>
        /\ body.took = MainCall.outcome.response.took
        /\ body.suggestions = <<>>

\* C10 amended: an empty backend result set gives a 200 with total 0, no hits
\* and the backend's took; suggestions are empty on
\* /search_by_prompt_or_query, and on /search exactly when suggest=false or
\* the backend answered no suggester option, being otherwise options the
\* backend answered.
C10_EmptyResultIsSuccess ==
    EmptyResultSet =>
        /\ status = 200
        /\ body.total = 0
        /\ body.hits = <<>>
        /\ body.took = MainCall.outcome.response.took
        /\ endpoint = "/search_by_prompt_or_query" => body.suggestions = <<>>
        /\ endpoint = "/search" =>
               /\ body.suggestions = <<>> <=>
                      (~params.suggest
                       \/ BackendOptionTexts(MainCall.outcome.response) = <<>>)
               /\ Range(body.suggestions)
                      \subseteq Range(BackendOptionTexts(MainCall.outcome.response))

\* no hit, but the term suggesters offered corrections
C10_Witness ==
    /\ EmptyResultSet /\ endpoint = "/search"
    /\ status = 200
    /\ body.suggestions # <<>>

====
